---------------------------- MODULE Spec2Model ----------------------------
(***************************************************************************)
(* NarrativeForge: the story/session orchestration core.                   *)
(*                                                                         *)
(* StoryManager (backend/app/models/story_manager.py) owns the in-memory   *)
(* map active_sessions; LLMEngine (backend/app/models/llm_engine.py)       *)
(* produces the next segment, from the loaded model or from the mock.      *)
(*                                                                         *)
(* All coroutines run on one asyncio event loop.  A coroutine keeps the    *)
(* loop thread from the moment it is resumed until it suspends or ends;    *)
(* the variable running names the advance coroutine that has the thread    *)
(* (0: the thread is free).  Every other operation needs the thread, and   *)
(* the loop resumes scheduled coroutines in the order they were scheduled. *)
(*                                                                         *)
(* Values: None is "None" for text fields and NoTime (0) for timestamps.   *)
(* A session id is the position of its uuid4 in the sequence of uuid4      *)
(* values drawn for sessions.  A segment id is the 8-character prefix of   *)
(* a uuid4 of its own: a draw gives a prefix not drawn before or repeats   *)
(* one drawn before (HexPrefixes names the distinct prefixes in the order  *)
(* they first appear).                                                     *)
(***************************************************************************)
EXTENDS Integers, Sequences, FiniteSets, TLC

\* ------------------------------------------------------------------ bounds
\* generate_next_segment calls that can be made
MaxTasks == 2
\* create_new_story and generate_next_segment calls that can be made in all
MaxCalls == 3
\* outcomes of random.sample explored at each call of it
MaxDraws == 4
\* words in a story text given to _extract_location
MaxWords == 3

\* ------------------------------------------------------------- plain data
NoneVal == "None"
NoTime == 0

\* genre arguments: a known genre and an unknown one (which gets the
\* templates of "fantasy")
Genres == {"scifi", "western"}
Difficulties == {"easy", "medium"}
\* the (genre, difficulty) arguments of the create_new_story calls explored
CreateArgs == { << "scifi", "easy" >>, << "western", "medium" >> }

StoryChoice(text, action) ==
    [text |-> text, action |-> action, description |-> NoneVal]

StorySegment(id, text, choices, background) ==
    [id |-> id, text |-> text, choices |-> choices,
     background_context |-> background]

_load_story_templates ==
    [fantasy |->
       [opening |-> "You stand at the entrance of the ancient Crystal Caverns, a legendary place where adventurers seek the fabled Heart of the Mountain. The air is thick with magic, and you can feel the weight of destiny upon your shoulders. Your quest begins now...",
        initial_choices |->
           << StoryChoice("Enter the caverns boldly", "bold_entrance"),
              StoryChoice("Study the entrance first", "cautious_approach"),
              StoryChoice("Check your equipment", "prepare_equipment") >>,
        background |-> "The Crystal Caverns are said to hold ancient treasures and powerful artifacts. Many have entered, but few have returned. The Heart of the Mountain is a legendary gem that grants its wielder immense power.",
        characters |->
           [protagonist |-> "A brave adventurer seeking glory and treasure",
            mentor |-> "The wise old sage who sent you on this quest"],
        world |->
           [setting |-> "Fantasy realm with magic and mythical creatures",
            time_period |-> "Medieval fantasy era"]],
     scifi |->
       [opening |-> "The starship Horizon drifts through the vast emptiness of space. You're the captain of this vessel, and you've just received a mysterious distress signal from a nearby planet. The fate of your crew and potentially the galaxy rests in your hands...",
        initial_choices |->
           << StoryChoice("Investigate the distress signal", "investigate"),
              StoryChoice("Scan the planet first", "scan_planet"),
              StoryChoice("Consult with your crew", "crew_meeting") >>,
        background |-> "You're on a deep space exploration mission when you encounter an unknown signal. The planet below shows signs of advanced civilization, but something seems wrong.",
        characters |->
           [protagonist |-> "Captain of the starship Horizon",
            crew |-> "Diverse team of specialists and explorers"],
        world |->
           [setting |-> "Deep space exploration",
            time_period |-> "Far future, interstellar era"]],
     mystery |->
       [opening |-> "The old mansion looms before you, its windows dark and foreboding. You're a detective called to investigate the disappearance of the mansion's owner. The local police are stumped, and the family is desperate for answers...",
        initial_choices |->
           << StoryChoice("Enter the mansion", "enter_mansion"),
              StoryChoice("Interview the neighbors", "interview_neighbors"),
              StoryChoice("Examine the exterior", "examine_exterior") >>,
        background |-> "A wealthy businessman has vanished from his mansion without a trace. No signs of forced entry, no ransom note, just an empty house and unanswered questions.",
        characters |->
           [protagonist |-> "Experienced detective with a sharp mind",
            victim |-> "The missing mansion owner",
            suspects |-> "Various family members and staff"],
        world |->
           [setting |-> "Modern-day detective work",
            time_period |-> "Present day"]]]

\* dict.get(genre, default)
TemplateFor(genre) ==
    IF genre \in DOMAIN _load_story_templates
    THEN _load_story_templates[genre]
    ELSE _load_story_templates["fantasy"]

choice_templates ==
    [fantasy |->
       << <<"Continue forward", "continue">>,
          <<"Investigate the area", "investigate">>,
          <<"Use magic", "use_magic">>,
          <<"Fight", "fight">>,
          <<"Run away", "flee">> >>,
     scifi |->
       << <<"Scan the area", "scan">>,
          <<"Contact the crew", "contact_crew">>,
          <<"Use technology", "use_tech">>,
          <<"Proceed carefully", "proceed_carefully">>,
          <<"Return to ship", "return_ship">> >>,
     mystery |->
       << <<"Search for clues", "search">>,
          <<"Question someone", "question">>,
          <<"Examine evidence", "examine">>,
          <<"Follow a lead", "follow_lead">>,
          <<"Call for backup", "call_backup">> >>]

mock_responses ==
    [bold_entrance |-> "You stride confidently into the Crystal Caverns. The air is thick with ancient magic, and your footsteps echo through the crystalline passages. Suddenly, you hear a low rumble from deep within the mountain...",
     cautious_approach |-> "You carefully examine the entrance, noting the intricate runes carved into the stone. Your careful observation reveals a hidden mechanism that could be either a trap or a blessing...",
     prepare_equipment |-> "You take a moment to check your gear. Your sword gleams in the dim light, and you feel the weight of your magical items. You're as ready as you'll ever be for what lies ahead...",
     investigate |-> "You decide to investigate the distress signal. As you approach the planet's surface, your sensors detect unusual energy readings that don't match any known technology...",
     scan_planet |-> "Your ship's scanners sweep across the planet's surface, revealing structures that defy conventional physics. The readings suggest technology far beyond human capabilities...",
     enter_mansion |-> "You step into the mansion, the floorboards creaking beneath your feet. The air is thick with dust and something else - the lingering presence of secrets waiting to be uncovered...",
     interview_neighbors |-> "You approach the neighboring houses, hoping to gather information. The locals seem nervous, their eyes darting around as they speak in hushed tones about the mansion's dark history..."]


\* f"You choose to {chosen_choice.text.lower()}. The story continues with
\* new challenges and discoveries ahead...", for every choice text of the
\* templates and of the catalogs
GenericSentence(text) ==
    CASE text = "Enter the caverns boldly" -> "You choose to enter the caverns boldly. The story continues with new challenges and discoveries ahead..."
      [] text = "Study the entrance first" -> "You choose to study the entrance first. The story continues with new challenges and discoveries ahead..."
      [] text = "Check your equipment" -> "You choose to check your equipment. The story continues with new challenges and discoveries ahead..."
      [] text = "Investigate the distress signal" -> "You choose to investigate the distress signal. The story continues with new challenges and discoveries ahead..."
      [] text = "Scan the planet first" -> "You choose to scan the planet first. The story continues with new challenges and discoveries ahead..."
      [] text = "Consult with your crew" -> "You choose to consult with your crew. The story continues with new challenges and discoveries ahead..."
      [] text = "Enter the mansion" -> "You choose to enter the mansion. The story continues with new challenges and discoveries ahead..."
      [] text = "Interview the neighbors" -> "You choose to interview the neighbors. The story continues with new challenges and discoveries ahead..."
      [] text = "Examine the exterior" -> "You choose to examine the exterior. The story continues with new challenges and discoveries ahead..."
      [] text = "Continue forward" -> "You choose to continue forward. The story continues with new challenges and discoveries ahead..."
      [] text = "Investigate the area" -> "You choose to investigate the area. The story continues with new challenges and discoveries ahead..."
      [] text = "Use magic" -> "You choose to use magic. The story continues with new challenges and discoveries ahead..."
      [] text = "Fight" -> "You choose to fight. The story continues with new challenges and discoveries ahead..."
      [] text = "Run away" -> "You choose to run away. The story continues with new challenges and discoveries ahead..."
      [] text = "Scan the area" -> "You choose to scan the area. The story continues with new challenges and discoveries ahead..."
      [] text = "Contact the crew" -> "You choose to contact the crew. The story continues with new challenges and discoveries ahead..."
      [] text = "Use technology" -> "You choose to use technology. The story continues with new challenges and discoveries ahead..."
      [] text = "Proceed carefully" -> "You choose to proceed carefully. The story continues with new challenges and discoveries ahead..."
      [] text = "Return to ship" -> "You choose to return to ship. The story continues with new challenges and discoveries ahead..."
      [] text = "Search for clues" -> "You choose to search for clues. The story continues with new challenges and discoveries ahead..."
      [] text = "Question someone" -> "You choose to question someone. The story continues with new challenges and discoveries ahead..."
      [] text = "Examine evidence" -> "You choose to examine evidence. The story continues with new challenges and discoveries ahead..."
      [] text = "Follow a lead" -> "You choose to follow a lead. The story continues with new challenges and discoveries ahead..."
      [] text = "Call for backup" -> "You choose to call for backup. The story continues with new challenges and discoveries ahead..."

\* mock_responses.get(chosen_choice.action, f"You choose to ...")
MockText(chosen_choice) ==
    IF chosen_choice.action \in DOMAIN mock_responses
    THEN mock_responses[chosen_choice.action]
    ELSE GenericSentence(chosen_choice.text)

\* the distinct values of str(uuid.uuid4())[:8] drawn in a run, in the order
\* of their first appearance
HexPrefixes ==
    << "3f2a9c1e", "b07d44a2", "9e1c5f30", "51d8e6b7",
       "c4a09f12", "0d6b3e8a", "a81f27c5", "6e42d9b0" >>

\* str(uuid.uuid4())[:8] when the draw gives the n-th distinct prefix
NewSegmentId(n) == HexPrefixes[n]
\* what a draw can give after seen distinct prefixes were drawn: one of
\* them again, or the next new one
PrefixDraws(seen) == 1..(seen + 1)

\* random.sample(templates, min(3, len(templates))): its outcomes, as the
\* positions drawn from the 5 templates of a genre (3 distinct positions, in
\* the order returned)
Samples ==
    {sample \in [1..3 -> 1..Len(choice_templates["fantasy"])] :
        \A i, j \in 1..3 : i # j => sample[i] # sample[j]}

\* the order in which the bound MaxDraws admits outcomes to the exploration
SampleOrder ==
    << << 2, 5, 1 >>, << 4, 5, 1 >>, << 2, 1, 5 >>, << 1, 5, 4 >>,
       << 2, 5, 4 >>, << 2, 3, 1 >>, << 5, 3, 4 >>, << 5, 1, 2 >> >>

\* the outcomes of random.sample explored: each call draws any of them
Draws ==
    {SampleOrder[k] : k \in 1..MaxDraws} \cap Samples

_generate_choices_for_segment(genre, draw) ==
    LET templates == IF genre \in DOMAIN choice_templates
                     THEN choice_templates[genre]
                     ELSE choice_templates["fantasy"]
    IN  [i \in 1..Len(draw) |->
            StoryChoice(templates[draw[i]][1], templates[draw[i]][2])]

\* what tokenizer.decode(...)[len(prompt):].strip() can be, as the list of
\* its lines (str.split('\n') of a string is never the empty list)
Responses ==
    { << "" >>,
      << "The door swings open.", "Beyond it lies a bright hall." >> }

\* outcome of the body of _generate_text: the decoded continuation, or an
\* exception raised by encode / generate / decode
GenOutcomes ==
    { [raised |-> FALSE, lines |-> r] : r \in Responses }
      \cup { [raised |-> TRUE, lines |-> << >>] }

\* _generate_text: its own except clause turns an exception into the
\* placeholder text
_generate_text(outcome) ==
    IF outcome.raised THEN << "The story continues..." >> ELSE outcome.lines

_parse_story_response(lines, genre, id, draw) ==
    LET story_text == IF Len(lines) > 0 THEN lines[1]
                      ELSE "The story continues..."
    IN  StorySegment(id, story_text,
                     _generate_choices_for_segment(genre, draw), NoneVal)

_mock_generate_segment(genre, chosen_choice, id, draw) ==
    StorySegment(id, MockText(chosen_choice),
                 _generate_choices_for_segment(genre, draw), NoneVal)

\* LLMEngine.generate_story_continuation.  Nothing in its try block raises
\* (_generate_text absorbs its own exceptions), so with a loaded model the
\* segment always comes from _parse_story_response.
generate_story_continuation(mdl, genre, chosen_choice, id, draw, outcome) ==
    IF mdl = NoneVal
    THEN _mock_generate_segment(genre, chosen_choice, id, draw)
    ELSE _parse_story_response(_generate_text(outcome), genre, id, draw)

\* ---------------------------------------------------- _build_story_context
\* json.dumps of the info dicts of the templates
JsonDumps(info) ==
    CASE info = _load_story_templates.fantasy.world ->
           "{\"setting\": \"Fantasy realm with magic and mythical creatures\", \"time_period\": \"Medieval fantasy era\"}"
      [] info = _load_story_templates.fantasy.characters ->
           "{\"protagonist\": \"A brave adventurer seeking glory and treasure\", \"mentor\": \"The wise old sage who sent you on this quest\"}"
      [] info = _load_story_templates.scifi.world ->
           "{\"setting\": \"Deep space exploration\", \"time_period\": \"Far future, interstellar era\"}"
      [] info = _load_story_templates.scifi.characters ->
           "{\"protagonist\": \"Captain of the starship Horizon\", \"crew\": \"Diverse team of specialists and explorers\"}"

\* one element of context_parts, f"{label}: {text}"
ContextPart(label, text) == [label |-> label, text |-> text]

\* f"Scene {i+1}", i counted from 0
SceneLabel(i) == << "Scene 1", "Scene 2", "Scene 3" >>[i + 1]

\* story_history[-3:]
LastThree(history) ==
    SubSeq(history, IF Len(history) > 3 THEN Len(history) - 2 ELSE 1,
           Len(history))

\* the parts one iteration of the loop over story_history[-3:] appends
SceneParts(i, segment) ==
    << ContextPart(SceneLabel(i), segment.text) >>
    \o (IF segment.choices # << >>
        THEN << ContextPart("Action", segment.choices[1].text) >>
        ELSE << >>)

\* LLMEngine._build_story_context: context_parts, which "\n".join makes the
\* lines of the context
_build_story_context(story_state) ==
    LET recent == LastThree(story_state.story_history)
        scenes(i) == IF Len(recent) > i THEN SceneParts(i, recent[i + 1])
                     ELSE << >>
    IN  (IF DOMAIN story_state.world_info # {}
         THEN << ContextPart("World", JsonDumps(story_state.world_info)) >>
         ELSE << >>)
        \o (IF DOMAIN story_state.character_info # {}
            THEN << ContextPart("Characters",
                                JsonDumps(story_state.character_info)) >>
            ELSE << >>)
        \o scenes(0) \o scenes(1) \o scenes(2)
        \o << ContextPart("Current Scene", story_state.current_segment.text) >>

\* ------------------------------------------------------ text, as characters
\* A str is the sequence of its characters for the functions that look
\* inside one (lower, title, in).
UpperLetters ==
    << "A", "B", "C", "D", "E", "F", "G", "H", "I", "J", "K", "L", "M",
       "N", "O", "P", "Q", "R", "S", "T", "U", "V", "W", "X", "Y", "Z" >>
LowerLetters ==
    << "a", "b", "c", "d", "e", "f", "g", "h", "i", "j", "k", "l", "m",
       "n", "o", "p", "q", "r", "s", "t", "u", "v", "w", "x", "y", "z" >>

IsUpper(c) == \E i \in DOMAIN UpperLetters : UpperLetters[i] = c
IsLower(c) == \E i \in DOMAIN LowerLetters : LowerLetters[i] = c
LowerChar(c) ==
    IF IsUpper(c)
    THEN LowerLetters[CHOOSE i \in DOMAIN UpperLetters : UpperLetters[i] = c]
    ELSE c
UpperChar(c) ==
    IF IsLower(c)
    THEN UpperLetters[CHOOSE i \in DOMAIN LowerLetters : LowerLetters[i] = c]
    ELSE c

\* str.lower()
Lower(str) == [i \in DOMAIN str |-> LowerChar(str[i])]

\* str.title(): a letter that follows a letter is lowered, any other letter
\* is raised
Title(str) ==
    [i \in DOMAIN str |->
        IF i > 1 /\ (IsUpper(str[i - 1]) \/ IsLower(str[i - 1]))
        THEN LowerChar(str[i])
        ELSE UpperChar(str[i])]

\* the positions at which sub occurs in str
Occurrences(sub, str) ==
    {i \in 1..(Len(str) - Len(sub) + 1) :
        SubSeq(str, i, i + Len(sub) - 1) = sub}

\* sub in str
Contains(str, sub) == Occurrences(sub, str) # {}

\* locations = ["cavern", "ship", "mansion", "forest", "city", "castle"]
locations ==
    << << "c", "a", "v", "e", "r", "n" >>,
       << "s", "h", "i", "p" >>,
       << "m", "a", "n", "s", "i", "o", "n" >>,
       << "f", "o", "r", "e", "s", "t" >>,
       << "c", "i", "t", "y" >>,
       << "c", "a", "s", "t", "l", "e" >> >>

\* "Unknown Location"
UnknownLocation ==
    << "U", "n", "k", "n", "o", "w", "n", " ",
       "L", "o", "c", "a", "t", "i", "o", "n" >>

\* LLMEngine._extract_location: the first entry of locations, in the order
\* of the list, that is in text.lower()
_extract_location(text) ==
    LET matching == {i \in DOMAIN locations :
                        Contains(Lower(text), locations[i])}
    IN  IF matching = {} THEN UnknownLocation
        ELSE Title(locations[CHOOSE i \in matching :
                                \A j \in matching : i <= j])

\* the words the story texts explored are made of
Vocabulary ==
    { << "s", "h", "i", "p" >>,
      << "C", "a", "v", "e", "r", "n" >>,
      << "c", "i", "t", "y" >>,
      << "m", "o", "o", "n" >>,
      << "T", "h", "e" >> }

RECURSIVE JoinWords(_)
\* " ".join(words)
JoinWords(words) ==
    IF Len(words) = 1 THEN words[1]
    ELSE words[1] \o << " " >> \o JoinWords(Tail(words))

\* the story texts explored: up to MaxWords words
Texts ==
    UNION { { JoinWords(words) : words \in [1..n -> Vocabulary] } :
            n \in 1..MaxWords }

\* ------------------------------------------------------- python indexing
\* the bound check with > for >=
InvalidChoiceIndexStrict(choice_index, n) == choice_index > n
\* line 95: if choice_index >= len(choices): raise ValueError
InvalidChoiceIndex(choice_index, n) == choice_index >= n

\* indexing that takes no negative index
IndexNonNegative(i, n) == i >= 0 /\ i < n
\* list[i] raises IndexError outside -n .. n-1
IndexInRange(i, n) == i >= -n /\ i < n

PyIndex(seq, i) ==
    IF i >= 0 THEN seq[i + 1] ELSE seq[Len(seq) + i + 1]

\* ---------------------------------------------------- main.py and routes.py
\* the module globals after "import main": routes.story_manager = None
\* (routes.py line 22); main.py line 37 binds main.story_manager, line 40
\* binds main.global_story_manager to the value of routes.story_manager, and
\* line 41 rebinds that name of main; no statement assigns routes.story_manager
main_module ==
    LET routes == [story_manager |-> NoneVal]
        line37 == [story_manager |-> "StoryManager"]
        line40 == [story_manager |-> line37.story_manager,
                   global_story_manager |-> routes.story_manager]
        line41 == [line40 EXCEPT !.global_story_manager = line40.story_manager]
    IN  [routes |-> routes, main |-> line41]

\* Depends(get_story_manager): HTTPException(503) when the global is None
get_story_manager(global_story_manager) ==
    IF global_story_manager = NoneVal
    THEN [raised |-> TRUE, status_code |-> 503,
          detail |-> "Story manager not initialized"]
    ELSE [raised |-> FALSE, status_code |-> 0, detail |-> NoneVal]

\* MakeChoiceRequest: choice_index has ge=0
MakeChoiceRequestValid(choice_index) == choice_index >= 0

\* ------------------------------------------------------------------ state
VARIABLES
    llm_engine,       \* StoryManager.llm_engine: NoneVal or "LLMEngine"
    model,            \* LLMEngine.model: NoneVal, "loaded" or Deleted
    tokenizer,        \* LLMEngine.tokenizer: NoneVal, "loaded" or Deleted
    active_sessions,  \* StoryManager.active_sessions, keyed 1..n
    clock,            \* the value datetime.now() returns
    uuid_count,       \* distinct uuid4 prefixes drawn so far for segment ids
    tasks,            \* the generate_next_segment coroutines, in call order
    running,          \* the coroutine that has the event loop thread, or 0
    done,             \* how the call of generate_next_segment that ended
                      \* last ended
    returned_count,   \* per session, the calls of generate_next_segment
                      \* that returned a segment
    ended_ids,        \* the ids of the sessions on which end_story_session
                      \* has been called
    story_text,       \* the text a call of _extract_location is given
    location,         \* what that call returned (<< >>: not called yet)
    routes_story_manager,  \* the module global story_manager of routes.py
    requests          \* the requests whose dependency gave the manager and
                      \* whose handler has not run yet

vars == << llm_engine, model, tokenizer, active_sessions, clock, uuid_count,
           tasks, running, done, returned_count, ended_ids, story_text,
           location, routes_story_manager, requests >>

\* the variables no method of StoryManager assigns
app_vars == << story_text, location, routes_story_manager, requests >>
\* the variables no request changes but through its handler
text_vars == << story_text, location, routes_story_manager >>
\* the state of the StoryManager and of its callers
manager_vars == << llm_engine, model, tokenizer, active_sessions, clock,
                   uuid_count, tasks, running, done, returned_count,
                   ended_ids >>

TaskIds == 1..MaxTasks
\* the session ids create_new_story issues, in this order
SessionIds == {1, 2}
\* a session id that is never issued
UnknownSessionId == Cardinality(SessionIds) + 1
\* choice_index arguments: in range, one past the end, negative
ChoiceIndexArgs == {-1, 0, 3}

NoChoice == StoryChoice(NoneVal, NoneVal)
NoSegment == StorySegment(NoneVal, NoneVal, << >>, NoneVal)
NoExc == [type |-> NoneVal, message |-> NoneVal]
\* the snapshot of a session that is not in the store
NoSession == [session_id |-> 0]

Snapshot(sessions, session_id) ==
    IF session_id \in DOMAIN sessions THEN sessions[session_id] ELSE NoSession

IdleTask ==
    [pc |-> "idle", session_id |-> 0, choice_index |-> 0,
     chosen_choice |-> NoChoice, before |-> NoSession, overlapped |-> FALSE]

EndedTask == [IdleTask EXCEPT !.pc = "ended"]

\* how a call ended: with an exception, or with the segment it returned
\* (mode: which path of generate_story_continuation produced it;
\* ended_before: the session was already inactive when the call began;
\* context: what _build_story_context returned in the call, if it was run)
Ended(task, outcome, exc, next_segment, mode) ==
    [session_id |-> task.session_id, choice_index |-> task.choice_index,
     chosen_choice |-> task.chosen_choice, overlapped |-> task.overlapped,
     outcome |-> outcome, exc |-> exc, next_segment |-> next_segment,
     mode |-> mode, context |-> << >>,
     ended_before |-> IF task.before = NoSession THEN FALSE
                      ELSE ~task.before.is_active]

NoCall == Ended(IdleTask, NoneVal, NoExc, NoSegment, NoneVal)

InFlight(task) == task.pc \in {"scheduled", "generating"}

\* the calls of create_new_story and of generate_next_segment made so far
CallsMade(sessions, coroutines) ==
    Len(sessions)
      + Cardinality({t \in DOMAIN coroutines : coroutines[t].pc # "idle"})

Init ==
    /\ llm_engine = NoneVal
    /\ model = NoneVal
    /\ tokenizer = NoneVal
    /\ active_sessions = << >>
    /\ clock = 1
    /\ uuid_count = 0
    /\ tasks = [t \in TaskIds |-> IdleTask]
    /\ running = 0
    /\ done = NoCall
    /\ returned_count = << >>
    /\ ended_ids = {}
    /\ story_text = << >>
    /\ location = << >>
    /\ routes_story_manager = main_module.routes.story_manager
    /\ requests = << >>

\* ------------------------------------------------------------ StoryManager
\* an attribute removed by del: reading it raises AttributeError
Deleted == "deleted"

\* how far the try block of LLMEngine.initialize gets: loading the
\* tokenizer raises, loading (or moving) the model raises, or all of it runs
LoadOutcomes == {"tokenizer_raises", "model_raises", "loads"}

\* StoryManager.initialize with LLMEngine.initialize: a new LLMEngine
\* replaces the one there was; the except clause leaves model = None
initialize(load) ==
    /\ running = 0
    /\ llm_engine' = "LLMEngine"
    /\ tokenizer' = IF load = "tokenizer_raises" THEN NoneVal ELSE "loaded"
    /\ model' = IF load = "loads" THEN "loaded" ELSE NoneVal
    /\ UNCHANGED << active_sessions, clock, uuid_count, tasks, running, done,
                    returned_count, ended_ids >>

\* "if self.x: del self.x" of LLMEngine.cleanup, for an attribute that
\* exists
DelIfSet(attribute) == IF attribute = NoneVal THEN NoneVal ELSE Deleted

\* StoryManager.cleanup with LLMEngine.cleanup: without an engine nothing
\* is done; reading an attribute a former cleanup deleted raises
\* AttributeError out of cleanup, which then has changed nothing
cleanup ==
    /\ running = 0
    /\ IF llm_engine = NoneVal \/ model = Deleted
       THEN UNCHANGED << model, tokenizer >>
       ELSE /\ model' = DelIfSet(model)
            /\ tokenizer' = IF tokenizer = Deleted THEN Deleted
                             ELSE DelIfSet(tokenizer)
    /\ UNCHANGED << llm_engine, active_sessions, clock, uuid_count, tasks,
                    running, done, returned_count, ended_ids >>

InitialState(session_id, genre, difficulty, now) ==
    LET template == TemplateFor(genre)
    IN  [story_id |-> session_id,
         current_segment |->
             StorySegment("start", template.opening,
                          template.initial_choices, template.background),
         story_history |-> << >>,
         character_info |-> template.characters,
         world_info |-> template.world,
         genre |-> genre,
         difficulty |-> difficulty,
         created_at |-> now,
         last_updated |-> NoTime]

create_new_story(genre, difficulty) ==
    /\ running = 0
    /\ Len(active_sessions) < Cardinality(SessionIds)
    /\ CallsMade(active_sessions, tasks) < MaxCalls
    /\ LET session_id == Len(active_sessions) + 1
           session == [session_id |-> session_id,
                       story_state |->
                           InitialState(session_id, genre, difficulty, clock),
                       created_at |-> clock,
                       last_updated |-> clock,
                       is_active |-> TRUE]
       IN  active_sessions' = Append(active_sessions, session)
    /\ returned_count' = Append(returned_count, 0)
    /\ UNCHANGED << llm_engine, model, tokenizer, clock, uuid_count, tasks,
                    running, done, ended_ids >>

\* the value get_story_state returns
StoryStateOf(sessions, session_id) ==
    IF session_id \in DOMAIN sessions
    THEN sessions[session_id].story_state
    ELSE NoneVal

get_story_state(session_id) ==
    /\ running = 0
    /\ UNCHANGED vars

\* ending a session by purging its history as well
PurgeSession(sessions, session_id) ==
    IF session_id \in DOMAIN sessions
    THEN [sessions EXCEPT ![session_id].is_active = FALSE,
                          ![session_id].story_state.story_history = << >>]
    ELSE sessions
\* ending a session by flipping its flag
ToggleSession(sessions, session_id) ==
    IF session_id \in DOMAIN sessions
    THEN [sessions EXCEPT ![session_id].is_active = ~@]
    ELSE sessions
EndSession(sessions, session_id) ==
    IF session_id \in DOMAIN sessions
    THEN [sessions EXCEPT ![session_id].is_active = FALSE]
    ELSE sessions

end_story_session(session_id) ==
    /\ running = 0
    /\ active_sessions' = EndSession(active_sessions, session_id)
    /\ ended_ids' = ended_ids \cup ({session_id} \cap DOMAIN active_sessions)
    /\ UNCHANGED << llm_engine, model, tokenizer, clock, uuid_count, tasks,
                    running, done, returned_count >>

\* the comprehension without its filter
AllIds(sessions) == [i \in 1..Len(sessions) |-> i]
\* [sid for sid, session in active_sessions.items() if session.is_active]
ActiveIds(sessions) ==
    SelectSeq([i \in 1..Len(sessions) |-> i],
              LAMBDA sid : sessions[sid].is_active)

get_active_sessions ==
    /\ running = 0
    /\ UNCHANGED vars

\* --------------------------------------------------- generate_next_segment
\* the arguments of the calls explored: every existing session with every
\* index, and the unknown session (line 88 raises before the index is read)
CallArgs(sessions) ==
    ((DOMAIN sessions) \X ChoiceIndexArgs) \cup {<< UnknownSessionId, 0 >>}

\* the coroutines once generate_next_segment(session_id, choice_index) is
\* called as coroutine t.  overlapped records that another call on the same
\* session is in flight.
Called(coroutines, t, session_id, choice_index) ==
    LET others == {u \in TaskIds : /\ InFlight(coroutines[u])
                                   /\ coroutines[u].session_id = session_id}
    IN  [u \in TaskIds |->
            IF u = t
            THEN [coroutines[t] EXCEPT !.pc = "scheduled",
                                       !.session_id = session_id,
                                       !.choice_index = choice_index,
                                       !.overlapped = (others # {})]
            ELSE IF u \in others
            THEN [coroutines[u] EXCEPT !.overlapped = TRUE]
            ELSE coroutines[u]]

\* a call of generate_next_segment is made by a caller that runs it as a
\* task of the loop (asyncio.gather, create_task): its coroutine is
\* scheduled.
CallAdvance(t, session_id, choice_index) ==
    /\ running = 0
    /\ tasks[t].pc = "idle"
    /\ CallsMade(active_sessions, tasks) < MaxCalls
    /\ \A u \in TaskIds : u < t => tasks[u].pc # "idle"
    /\ tasks' = Called(tasks, t, session_id, choice_index)
    /\ UNCHANGED << llm_engine, model, tokenizer, active_sessions, clock,
                    uuid_count, running, done, returned_count, ended_ids >>

\* the awaited call suspends and gives the loop thread back
LoopReleasedDuringGeneration(t) == 0
\* who has the loop thread while coroutine t is inside
\* "await self.llm_engine.generate_story_continuation(...)": nothing under
\* that await suspends (_mock_generate_segment and _generate_text contain no
\* await; model.generate is a blocking call), so t keeps the thread
LoopOwnerDuringGeneration(t) == t

ValueErrorNotFound ==
    [type |-> "ValueError", message |-> "Session {session_id} not found"]
ValueErrorInvalidChoice ==
    [type |-> "ValueError", message |-> "Invalid choice index: {choice_index}"]
IndexErrorOutOfRange ==
    [type |-> "IndexError", message |-> "list index out of range"]
AttributeErrorNoEngine ==
    [type |-> "AttributeError",
     message |-> "'NoneType' object has no attribute 'generate_story_continuation'"]
AttributeErrorNoModel ==
    [type |-> "AttributeError",
     message |-> "'LLMEngine' object has no attribute 'model'"]

\* a lookup that takes an ended session for a missing one
SessionFoundActive(sessions, session_id) ==
    session_id \in DOMAIN sessions /\ sessions[session_id].is_active
\* line 88: session_id in self.active_sessions
SessionFound(sessions, session_id) == session_id \in DOMAIN sessions

\* coroutine t ends by raising exc
Raised(t, me, exc) ==
    /\ tasks' = [tasks EXCEPT ![t] = EndedTask]
    /\ done' = Ended(me, "raised", exc, NoSegment, NoneVal)

\* lines 88-101 run by the coroutine task on the store sessions: the
\* exception raised (NoExc: the coroutine got to the await of line 104), the
\* coroutine and the store as they are then
UpToAwait(sessions, task) ==
    LET sid == task.session_id
        idx == task.choice_index
        me == [task EXCEPT !.before = Snapshot(sessions, sid)]
    IN  IF ~SessionFound(sessions, sid)
        THEN [exc |-> ValueErrorNotFound, me |-> me, sessions |-> sessions]
        ELSE LET state == sessions[sid].story_state
                 choices == state.current_segment.choices
             IN  IF InvalidChoiceIndex(idx, Len(choices))
                 THEN [exc |-> ValueErrorInvalidChoice, me |-> me,
                       sessions |-> sessions]
                 ELSE IF ~IndexInRange(idx, Len(choices))
                 THEN [exc |-> IndexErrorOutOfRange, me |-> me,
                       sessions |-> sessions]
                 ELSE [exc |-> NoExc,
                       me |-> [me EXCEPT !.pc = "generating",
                                         !.chosen_choice =
                                             PyIndex(choices, idx)],
                       sessions |->
                           [sessions EXCEPT
                               ![sid].story_state.story_history =
                                   Append(@, state.current_segment)]]

\* lines 88-101: the loop resumes t, which runs up to the await
AdvanceStart(t) ==
    /\ running = 0
    /\ tasks[t].pc = "scheduled"
    /\ \A u \in TaskIds : u < t => tasks[u].pc # "scheduled"
    /\ LET start == UpToAwait(active_sessions, tasks[t])
       IN  IF start.exc # NoExc
           THEN /\ Raised(t, start.me, start.exc)
                /\ UNCHANGED << active_sessions, running >>
           ELSE /\ active_sessions' = start.sessions
                /\ tasks' = [tasks EXCEPT ![t] = start.me]
                /\ running' = LoopOwnerDuringGeneration(t)
                /\ UNCHANGED done
    /\ UNCHANGED << llm_engine, model, tokenizer, clock, uuid_count,
                    returned_count, ended_ids >>

\* lines 104-117 run by the coroutine task, which is at the await, on the
\* store sessions at the time now: the exception raised (NoExc: the call
\* returned), the store and the record of how the call ended.  n: the uuid4
\* prefix drawn for the id, draw: the outcome of random.sample, outcome:
\* that of the generator
FromAwait(engine, mdl, sessions, now, task, n, draw, outcome) ==
    LET sid == task.session_id
        state == sessions[sid].story_state
    IN  IF engine = NoneVal
        THEN \* None.generate_story_continuation
             [exc |-> AttributeErrorNoEngine, sessions |-> sessions,
              done |-> Ended(task, "raised", AttributeErrorNoEngine,
                             NoSegment, NoneVal)]
        ELSE IF mdl = Deleted
        THEN \* line 74 reads self.model, outside the try block
             [exc |-> AttributeErrorNoModel, sessions |-> sessions,
              done |-> Ended(task, "raised", AttributeErrorNoModel,
                             NoSegment, NoneVal)]
        ELSE LET next_segment ==
                     generate_story_continuation(
                         mdl, state.genre, task.chosen_choice,
                         NewSegmentId(n), draw, outcome)
                 mode == IF mdl = NoneVal THEN "mock"
                         ELSE IF outcome.raised THEN "real_failed"
                         ELSE "real"
             IN  [exc |-> NoExc,
                  sessions |->
                      [sessions EXCEPT
                          ![sid].story_state.current_segment = next_segment,
                          ![sid].story_state.last_updated = now,
                          ![sid].last_updated = now],
                  done |-> [Ended(task, "returned", NoExc, next_segment, mode)
                            EXCEPT !.context =
                                IF mdl = NoneVal THEN << >>
                                ELSE _build_story_context(state)]]

\* what a call on session sid that ended with exc leaves of the clock and
\* of the counts: a call that returned has read datetime.now() and drawn
\* prefix n
Counted(exc, sid, n) ==
    IF exc # NoExc
    THEN UNCHANGED << clock, uuid_count, returned_count >>
    ELSE /\ returned_count' = [returned_count EXCEPT ![sid] = @ + 1]
         /\ uuid_count' = IF n > uuid_count THEN n ELSE uuid_count
         /\ clock' = clock + 1

\* lines 104-117: the awaited call and the rest of the coroutine
AdvanceFinish(t, n, draw, outcome) ==
    /\ running \in {0, t}
    /\ tasks[t].pc = "generating"
    /\ n <= Len(HexPrefixes)
    /\ LET rest == FromAwait(llm_engine, model, active_sessions, clock,
                             tasks[t], n, draw, outcome)
       IN  /\ active_sessions' = rest.sessions
           /\ tasks' = [tasks EXCEPT ![t] = EndedTask]
           /\ done' = rest.done
           /\ Counted(rest.exc, tasks[t].session_id, n)
    /\ running' = 0
    /\ UNCHANGED << llm_engine, model, tokenizer, ended_ids >>

\* "await manager.generate_next_segment(...)" in a caller that has the loop
\* thread: the await runs the coroutine itself, lines 88-117 from the call
\* to the return or the raise, and since nothing under line 104 suspends
\* the caller never gives the thread back in between
generate_next_segment(t, session_id, choice_index, n, draw, outcome) ==
    /\ running = 0
    /\ LoopOwnerDuringGeneration(t) = t
    /\ tasks[t].pc = "idle"
    /\ CallsMade(active_sessions, tasks) < MaxCalls
    /\ \A u \in TaskIds : u < t => tasks[u].pc # "idle"
    /\ n <= Len(HexPrefixes)
    /\ LET called == Called(tasks, t, session_id, choice_index)
           start == UpToAwait(active_sessions, called[t])
           last == IF start.exc # NoExc
                   THEN [exc |-> start.exc, sessions |-> start.sessions,
                         done |-> Ended(start.me, "raised", start.exc,
                                        NoSegment, NoneVal)]
                   ELSE FromAwait(llm_engine, model, start.sessions, clock,
                                  start.me, n, draw, outcome)
       IN  /\ active_sessions' = last.sessions
           /\ tasks' = [called EXCEPT ![t] = EndedTask]
           /\ done' = last.done
           /\ Counted(last.exc, session_id, n)
    /\ UNCHANGED << llm_engine, model, tokenizer, running, ended_ids >>

\* the generator outcome is only drawn when a model is loaded
OutcomesFor(mdl) ==
    IF mdl = "loaded" THEN GenOutcomes
    ELSE { [raised |-> FALSE, lines |-> << >>] }

\* a request to a story route, as the arguments it carries (0 and NoneVal
\* for those its route does not have)
Request(route, genre, difficulty, session_id, choice_index) ==
    [route |-> route, genre |-> genre, difficulty |-> difficulty,
     session_id |-> session_id, choice_index |-> choice_index]

\* Depends(get_story_manager) of a request: get_story_manager is a plain
\* def, run in a worker thread while the request waits for it; the request
\* ends with the 503 response, or goes on to wait for its handler to run
ResolveDependency(request) ==
    /\ running = 0
    /\ Len(requests) < MaxCalls
    /\ IF get_story_manager(routes_story_manager).raised
       THEN UNCHANGED requests
       ELSE requests' = Append(requests, request)
    /\ UNCHANGED manager_vars
    /\ UNCHANGED text_vars

\* the handler of a request whose dependency gave the manager runs, from
\* its call to its return without giving the loop thread back
RunHandler(request, handler) ==
    /\ running = 0
    /\ \E i \in DOMAIN requests :
          /\ requests[i] = request
          /\ requests' = [j \in 1..(Len(requests) - 1) |->
                             IF j < i THEN requests[j] ELSE requests[j + 1]]
    /\ handler
    /\ UNCHANGED text_vars

\* a step of a request to a story route: its dependency, or its handler
ViaRoute(request, handler) ==
    \/ ResolveDependency(request)
    \/ RunHandler(request, handler)

create_story(genre, difficulty) ==
    ViaRoute(Request("create_story", genre, difficulty, 0, 0),
             create_new_story(genre, difficulty))

get_story_state_route(session_id) ==
    ViaRoute(Request("get_story_state", NoneVal, NoneVal, session_id, 0),
             UNCHANGED manager_vars)

get_story_history(session_id) ==
    ViaRoute(Request("get_story_history", NoneVal, NoneVal, session_id, 0),
             UNCHANGED manager_vars)

\* the handler answers 422, 404 or 400 without a call of
\* generate_next_segment, or awaits that call (line 99) and answers with
\* the segment it returned, or with 500 when it raised: the handler's run
\* holds the whole call
make_choice(session_id, choice_index) ==
    ViaRoute(Request("make_choice", NoneVal, NoneVal, session_id,
                     choice_index),
        IF \/ ~MakeChoiceRequestValid(choice_index)
           \/ session_id \notin DOMAIN active_sessions
           \/ choice_index >=
                 Len(active_sessions[session_id].story_state
                        .current_segment.choices)
        THEN UNCHANGED manager_vars
        ELSE \E t \in TaskIds, n \in PrefixDraws(uuid_count), draw \in Draws,
                outcome \in OutcomesFor(model) :
                 generate_next_segment(t, session_id, choice_index, n, draw,
                                       outcome))

end_story(session_id) ==
    ViaRoute(Request("end_story", NoneVal, NoneVal, session_id, 0),
             end_story_session(session_id))

list_active_stories ==
    ViaRoute(Request("list_active_stories", NoneVal, NoneVal, 0, 0),
             UNCHANGED manager_vars)

Next ==
    \/ /\ \E load \in LoadOutcomes : initialize(load)
       /\ UNCHANGED app_vars
    \/ /\ cleanup
       /\ UNCHANGED app_vars
    \/ /\ \E args \in CreateArgs : create_new_story(args[1], args[2])
       /\ UNCHANGED app_vars
    \/ \E session_id \in DOMAIN active_sessions \cup {UnknownSessionId} :
           get_story_state(session_id)
    \/ /\ \E session_id \in DOMAIN active_sessions \cup {UnknownSessionId} :
              end_story_session(session_id)
       /\ UNCHANGED app_vars
    \/ get_active_sessions
    \/ /\ \E t \in TaskIds, args \in CallArgs(active_sessions) :
              CallAdvance(t, args[1], args[2])
       /\ UNCHANGED app_vars
    \/ /\ \E t \in TaskIds : AdvanceStart(t)
       /\ UNCHANGED app_vars
    \/ /\ \E t \in TaskIds, n \in PrefixDraws(uuid_count), draw \in Draws,
             outcome \in OutcomesFor(model) :
              AdvanceFinish(t, n, draw, outcome)
       /\ UNCHANGED app_vars
    \/ \E args \in CreateArgs : create_story(args[1], args[2])
    \/ \E session_id \in DOMAIN active_sessions \cup {UnknownSessionId} :
           get_story_state_route(session_id)
    \/ \E session_id \in DOMAIN active_sessions \cup {UnknownSessionId} :
           get_story_history(session_id)
    \/ \E args \in CallArgs(active_sessions) : make_choice(args[1], args[2])
    \/ \E session_id \in DOMAIN active_sessions \cup {UnknownSessionId} :
           end_story(session_id)
    \/ list_active_stories

Spec == Init /\ [][Next]_vars

\* ------------------------------------------------- the text functions alone
\* LLMEngine._extract_location called on a story text, on a fresh manager
InitText ==
    /\ llm_engine = NoneVal
    /\ model = NoneVal
    /\ tokenizer = NoneVal
    /\ active_sessions = << >>
    /\ clock = 1
    /\ uuid_count = 0
    /\ tasks = [t \in TaskIds |-> IdleTask]
    /\ running = 0
    /\ done = NoCall
    /\ returned_count = << >>
    /\ ended_ids = {}
    /\ story_text \in Texts
    /\ location = << >>
    /\ routes_story_manager = main_module.routes.story_manager
    /\ requests = << >>

extract_location ==
    /\ location = << >>
    /\ location' = _extract_location(story_text)
    /\ UNCHANGED << llm_engine, model, tokenizer, active_sessions, clock,
                    uuid_count, tasks, running, done, returned_count,
                    ended_ids, story_text, routes_story_manager, requests >>

NextText == extract_location

SpecText == InitText /\ [][NextText]_vars


\* ------------------------------------------------------------- properties
\* steps of a call of generate_next_segment, as seen in one transition
Runs(t) == tasks[t].pc = "scheduled" /\ tasks'[t].pc # "scheduled"
EndsCall(t) == InFlight(tasks[t]) /\ tasks'[t].pc = "ended"
Returns(t) == EndsCall(t) /\ done'.outcome = "returned"
Raises(t) == EndsCall(t) /\ done'.outcome = "raised"

\* the session of call t before the call touched it, and after this step
PreCall(t) ==
    IF tasks[t].pc = "scheduled"
    THEN Snapshot(active_sessions, tasks[t].session_id)
    ELSE tasks[t].before
PostCall(t) == Snapshot(active_sessions', tasks[t].session_id)

SegmentIds(history) == {history[i].id : i \in DOMAIN history}
Segments(history) == {history[i] : i \in DOMAIN history}

ValidIndex(choice_index, segment) ==
    choice_index >= 0 /\ choice_index < Len(segment.choices)

\* C1: a call of generate_next_segment with a valid choice index that
\* returns leaves story_history exactly one entry longer than before the
\* call, and current_segment is the segment it generated, whose id is
\* neither "start" nor the id of any segment of the history.
AdvanceAppendsOneFreshSegment ==
    [][\A t \in TaskIds :
          (Returns(t) /\ ValidIndex(tasks[t].choice_index,
                                    PreCall(t).story_state.current_segment))
          => LET pre == PreCall(t).story_state
                 post == PostCall(t).story_state
             IN  /\ Len(post.story_history) = Len(pre.story_history) + 1
                 /\ post.current_segment = done'.next_segment
                 /\ post.current_segment # pre.current_segment
                 /\ post.current_segment.id # "start"
                 /\ post.current_segment.id \notin SegmentIds(post.story_history)
      ]_vars

\* C2: a call of generate_next_segment on an existing session whose
\* choice_index is at least the number of choices of the current segment
\* raises the invalid-choice ValueError and changes nothing in the store
\* (current_segment, story_history and last_updated included).
InvalidChoiceLeavesSessionUnchanged ==
    [][\A t \in TaskIds :
          (/\ Runs(t)
           /\ tasks[t].session_id \in DOMAIN active_sessions
           /\ tasks[t].choice_index >=
                 Len(PreCall(t).story_state.current_segment.choices))
          => /\ Raises(t)
             /\ done'.exc = ValueErrorInvalidChoice
             /\ active_sessions' = active_sessions
      ]_vars

\* an out-of-range call has been rejected on a session that advanced before
InvalidChoiceRejected ==
    /\ done.outcome = "raised"
    /\ done.exc = ValueErrorInvalidChoice
    /\ done.choice_index = 3
    /\ done.session_id \in DOMAIN active_sessions
    /\ Len(active_sessions[done.session_id].story_state.story_history) >= 1

\* C3: calls of generate_next_segment that overlap on one session do not
\* interleave their read-modify-write: a call that returns has appended
\* exactly one entry, the segment that was current when it began, and has
\* installed its own segment, and the call that runs after it appends the
\* segment the earlier call generated, so that each call adds one entry to
\* the history and nothing is lost or appended twice.
OverlappingAdvancesSerialize ==
    [][\A t \in TaskIds :
          /\ (Returns(t) /\ tasks[t].overlapped)
             => LET pre == PreCall(t).story_state
                    post == PostCall(t).story_state
                IN  /\ post.story_history =
                          Append(pre.story_history, pre.current_segment)
                    /\ post.current_segment = done'.next_segment
          /\ (/\ Runs(t)
              /\ tasks'[t].pc = "generating"
              /\ tasks[t].overlapped
              /\ done.outcome = "returned"
              /\ done.overlapped
              /\ done.session_id = tasks[t].session_id)
             => LET pre == PreCall(t).story_state
                    post == PostCall(t).story_state
                IN  /\ pre.current_segment = done.next_segment
                    /\ post.story_history =
                          Append(pre.story_history, done.next_segment)
      ]_vars

\* two overlapping calls on one session have both returned: the history
\* grew by two, its second entry being the segment of the first call
TwoOverlappingAdvancesReturned ==
    /\ done.outcome = "returned"
    /\ done.overlapped
    /\ \A t \in TaskIds : tasks[t].pc = "ended"
    /\ done.session_id \in DOMAIN active_sessions
    /\ returned_count[done.session_id] = 2
    /\ LET state == active_sessions[done.session_id].story_state
       IN  /\ Len(state.story_history) = 2
           /\ state.story_history[1].id = "start"
           /\ state.story_history[2].id \in
                  {NewSegmentId(n) : n \in 1..uuid_count}
           /\ state.current_segment = done.next_segment

\* C4: whenever another operation can observe the store, the current
\* segment of every session is not an entry of its story_history, and the
\* history has as many entries as calls of generate_next_segment returned.
CurrentSegmentNeverInHistory ==
    running = 0 =>
        \A sid \in DOMAIN active_sessions :
            LET state == active_sessions[sid].story_state
            IN  /\ state.current_segment \notin Segments(state.story_history)
                /\ Len(state.story_history) = returned_count[sid]

\* C5: a call of generate_next_segment that ends with an error raised by
\* the generation call leaves its session exactly as it was before the call.
GenerationErrorLeavesSessionUnchanged ==
    [][\A t \in TaskIds :
          (tasks[t].pc = "generating" /\ Raises(t))
          => PostCall(t) = PreCall(t)
      ]_vars

\* C6: a call of generate_next_segment fails only with the not-found or the
\* invalid-choice error; on an existing session with a valid choice index
\* it returns a segment.
AdvanceFailsOnlyNotFoundOrInvalidChoice ==
    done.outcome = "raised" =>
        /\ done.exc \in {ValueErrorNotFound, ValueErrorInvalidChoice}
        /\ done.exc = ValueErrorNotFound
           <=> done.session_id \notin DOMAIN active_sessions

\* C7: a segment generated while the loaded generator raised has the text
\* the mock gives for the chosen choice, as when no model was loaded.
FailedGenerationGivesMockText ==
    (done.outcome = "returned" /\ done.mode = "real_failed")
    => done.next_segment.text = MockText(done.chosen_choice)

\* C8: while a call of generate_next_segment is in its generation call, the
\* operations on every other session can run.
OtherSessionsRunDuringGeneration ==
    \A t \in TaskIds :
        tasks[t].pc = "generating" =>
            \A other \in DOMAIN active_sessions \ {tasks[t].session_id} :
                /\ ENABLED get_story_state(other)
                /\ ENABLED end_story_session(other)

\* C9: a call of generate_next_segment on an unknown session id raises the
\* not-found error, leaves the store as it was, and the kind of that error
\* differs from the kind of the invalid-choice error.
NotFoundIsDistinctKind ==
    [][\A t \in TaskIds :
          (Runs(t) /\ tasks[t].session_id \notin DOMAIN active_sessions)
          => /\ Raises(t)
             /\ done'.exc = ValueErrorNotFound
             /\ active_sessions' = active_sessions
             /\ done'.exc.type # ValueErrorInvalidChoice.type
      ]_vars

\* C10: end_story_session never fails; it leaves the session inactive and
\* all else as it was, a second call on the same id changes nothing, and a
\* call on an unknown id changes nothing.
EndStoryIdempotentAndTotal ==
    [][\A session_id \in SessionIds \cup {UnknownSessionId} :
          end_story_session(session_id)
          => /\ EndSession(active_sessions', session_id) = active_sessions'
             /\ DOMAIN active_sessions' = DOMAIN active_sessions
             /\ \A sid \in DOMAIN active_sessions :
                    /\ sid # session_id
                       => active_sessions'[sid] = active_sessions[sid]
                    /\ sid = session_id
                       => active_sessions'[sid] =
                              [active_sessions[sid] EXCEPT !.is_active = FALSE]
             /\ session_id \notin DOMAIN active_sessions
                => active_sessions' = active_sessions
             /\ (/\ session_id \in DOMAIN active_sessions
                 /\ ~active_sessions[session_id].is_active)
                => active_sessions' = active_sessions
      ]_vars

\* a session that advanced has been ended, and another is still active
SessionEnded ==
    \E sid \in DOMAIN active_sessions, other \in DOMAIN active_sessions :
        /\ ~active_sessions[sid].is_active
        /\ Len(active_sessions[sid].story_state.story_history) >= 1
        /\ active_sessions[other].is_active


\* C11: in every state get_active_sessions returns, each once, exactly the
\* ids of the sessions that were created and on which end_story_session
\* has not been called.
ActiveListIsCreatedMinusEnded ==
    LET listed == ActiveIds(active_sessions)
    IN  /\ {listed[i] : i \in DOMAIN listed} = DOMAIN active_sessions \ ended_ids
        /\ Len(listed) = Cardinality(DOMAIN active_sessions \ ended_ids)

\* one session has been ended after it advanced, another is still listed
OneEndedOneListed ==
    /\ ended_ids # {}
    /\ ActiveIds(active_sessions) # << >>
    /\ \E sid \in ended_ids : returned_count[sid] >= 1


\* C12: a story created with a genre that has no template starts in the
\* state a story created with genre "fantasy" and the same difficulty
\* starts in (same id and creation time taken), the genre field included.
UnknownGenreStartsAsFantasy ==
    \A sid \in DOMAIN active_sessions :
        LET state == active_sessions[sid].story_state
        IN  (/\ state.genre \notin DOMAIN _load_story_templates
             /\ state.story_history = << >>
             /\ state.current_segment.id = "start")
            => state = InitialState(sid, "fantasy", state.difficulty,
                                    state.created_at)

\* the call that ended as call found no working generator: no model was
\* loaded (the engine's initialize failed to load one), the loaded model
\* raised during the call, or there was no engine or no model attribute to
\* call at all
GeneratorUnavailable(call) ==
    \/ call.mode \in {"mock", "real_failed"}
    \/ call.exc \in {AttributeErrorNoEngine, AttributeErrorNoModel}

\* C13: when the generator is unavailable, a call of generate_next_segment
\* with a choice index of the current segment returns a segment whose text
\* is the canned string of the chosen choice's action when there is one and
\* the generic sentence of the choice text otherwise; a story created with ("scifi", "easy") has genre "scifi", the
\* scifi opening and three choices with the actions investigate,
\* scan_planet, crew_meeting, and its advance with choice_index 0 returns
\* the canned text of "investigate".
MockTextFollowsChosenChoice ==
    /\ (GeneratorUnavailable(done) /\ done.choice_index >= 0)
       => /\ done.outcome = "returned"
          /\ LET choice == done.chosen_choice
             IN  IF choice.action \in DOMAIN mock_responses
                 THEN done.next_segment.text = mock_responses[choice.action]
                 ELSE done.next_segment.text = GenericSentence(choice.text)
    /\ \A sid \in DOMAIN active_sessions :
          LET state == active_sessions[sid].story_state
              history == state.story_history
          IN  /\ (/\ state.genre = "scifi"
                  /\ state.difficulty = "easy"
                  /\ history = << >>)
                 => /\ state.current_segment.text = "The starship Horizon drifts through the vast emptiness of space. You're the captain of this vessel, and you've just received a mysterious distress signal from a nearby planet. The fate of your crew and potentially the galaxy rests in your hands..."
                    /\ Len(state.current_segment.choices) = 3
                    /\ [i \in 1..3 |-> state.current_segment.choices[i].action]
                          = << "investigate", "scan_planet", "crew_meeting" >>
              /\ (/\ state.genre = "scifi"
                  /\ state.difficulty = "easy"
                  /\ GeneratorUnavailable(done)
                  /\ done.session_id = sid
                  /\ done.choice_index = 0
                  /\ returned_count[sid] <= 1
                  /\ history # << >>
                  /\ \A k \in DOMAIN history : history[k].id = "start")
                 => /\ done.outcome = "returned"
                    /\ state.current_segment = done.next_segment
                    /\ done.next_segment.text = "You decide to investigate the distress signal. As you approach the planet's surface, your sensors detect unusual energy readings that don't match any known technology..."

\* C14: end_story_session changes only the is_active flag of its session:
\* no session ever leaves the store, and get_story_state returns for every
\* session, the ended one included, the StoryState it returned before.
EndStoryKeepsState ==
    [][/\ \A sid \in DOMAIN active_sessions : sid \in DOMAIN active_sessions'
       /\ \A session_id \in SessionIds \cup {UnknownSessionId} :
             end_story_session(session_id)
             => \A sid \in DOMAIN active_sessions :
                    /\ StoryStateOf(active_sessions', sid) =
                          StoryStateOf(active_sessions, sid)
                    /\ active_sessions'[sid].session_id =
                          active_sessions[sid].session_id
                    /\ active_sessions'[sid].created_at =
                          active_sessions[sid].created_at
                    /\ active_sessions'[sid].last_updated =
                          active_sessions[sid].last_updated
      ]_vars

\* an ended session still holds the state its advances built
EndedSessionKeepsHistory ==
    \E sid \in ended_ids :
        LET state == StoryStateOf(active_sessions, sid)
        IN  /\ ~active_sessions[sid].is_active
            /\ state.story_history # << >>
            /\ state.current_segment.id # "start"
            /\ state.last_updated # NoTime

\* the position of the first occurrence of place in text, letter case aside
FirstOccurrence(place, text) ==
    LET at == Occurrences(place, Lower(text))
    IN  CHOOSE i \in at : \A j \in at : i <= j

\* C15: _extract_location returns, title-cased, a place name of the fixed
\* list that occurs in the text, "Unknown Location" when none occurs, and
\* "Ship" when several occur and "ship" occurs before every other one.
LocationIsFirstPlaceInText ==
    location # << >> =>
        LET places == {locations[i] : i \in DOMAIN locations}
            occurring == {p \in places : Contains(Lower(story_text), p)}
            ship == locations[2]
        IN  /\ occurring = {} => location = UnknownLocation
            /\ occurring # {} => location \in {Title(p) : p \in occurring}
            /\ (/\ Cardinality(occurring) >= 2
                /\ ship \in occurring
                /\ \A p \in occurring \ {ship} :
                       FirstOccurrence(ship, story_text) <
                           FirstOccurrence(p, story_text))
               => location = << "S", "h", "i", "p" >>

\* C16: the text of a segment made from generated text is the first
\* non-empty line of that text, the placeholder sentence when the text is
\* empty, and never the empty string.
ParsedTextIsFirstNonEmptyLine ==
    (done.outcome = "returned" /\ done.mode = "real")
    => LET FirstNonEmpty(lines) ==
               IF \E i \in DOMAIN lines : lines[i] # ""
               THEN lines[CHOOSE i \in DOMAIN lines :
                             /\ lines[i] # ""
                             /\ \A j \in DOMAIN lines : lines[j] # "" => i <= j]
               ELSE "The story continues..."
       IN  /\ done.next_segment.text \in {FirstNonEmpty(r) : r \in Responses}
           /\ done.next_segment.text # ""

\* C17: the context built for the generator in a call of
\* generate_next_segment is the one of the session as it was before the
\* call: world info, character info, the last up to 3 segments of the
\* history of before the call with their first choice, and last the segment
\* advanced from as the current scene, which no scene entry repeats.
ContextIsOfPreCallState ==
    [][\A t \in TaskIds :
          (Returns(t) /\ done'.mode # "mock")
          => LET pre == PreCall(t).story_state
                 scenes == {i \in DOMAIN done'.context :
                               done'.context[i].label \in
                                   {"Scene 1", "Scene 2", "Scene 3"}}
             IN  /\ done'.context = _build_story_context(pre)
                 /\ Cardinality(scenes) =
                        IF Len(pre.story_history) > 3 THEN 3
                        ELSE Len(pre.story_history)
      ]_vars

\* C18: after main.py has run, the manager the route dependency
\* get_story_manager looks up is the StoryManager made in main, and no
\* story request ends with the 503 "Story manager not initialized" response.
RoutesReachTheManager ==
    /\ routes_story_manager = main_module.main.story_manager
    /\ ~get_story_manager(routes_story_manager).raised
    /\ get_story_manager(routes_story_manager).status_code # 503

\* C19: a call of generate_next_segment with a choice_index in -n .. -1,
\* n being the number of choices of the current segment, is not rejected:
\* it takes the choice counted from the end of the list, and when it
\* returns the history is one entry longer and the current segment is the
\* new one; only MakeChoiceRequest rejects such an index.
NegativeIndexCountsFromEnd ==
    [][\A t \in TaskIds :
          LET pre == PreCall(t).story_state
              post == PostCall(t).story_state
              idx == tasks[t].choice_index
          IN  /\ (/\ Runs(t)
                  /\ tasks[t].session_id \in DOMAIN active_sessions
                  /\ idx < 0
                  /\ idx >= -Len(pre.current_segment.choices))
                 => /\ ~MakeChoiceRequestValid(idx)
                    /\ tasks'[t].pc = "generating"
                    /\ tasks'[t].chosen_choice =
                          pre.current_segment.choices[
                              Len(pre.current_segment.choices) + idx + 1]
                    /\ post.story_history =
                          Append(pre.story_history, pre.current_segment)
              /\ (Returns(t) /\ idx < 0)
                 => /\ Len(post.story_history) = Len(pre.story_history) + 1
                    /\ post.current_segment = done'.next_segment
                    /\ post.story_history[Len(post.story_history)] =
                          pre.current_segment
      ]_vars

\* a call with choice_index -1 has returned the segment for the last choice
NegativeIndexAdvanced ==
    /\ done.outcome = "returned"
    /\ done.choice_index = -1
    /\ done.session_id \in DOMAIN active_sessions
    /\ done.chosen_choice.action \in {"crew_meeting", "prepare_equipment",
                                      "scan", "continue"}
    /\ active_sessions[done.session_id].story_state.current_segment =
          done.next_segment

\* C20: a call of generate_next_segment on a session that was ended before
\* returns as on an active one, appending the current segment and
\* installing the new one, and no step makes an inactive session active:
\* the session stays out of the list of get_active_sessions.
EndedSessionStillAdvances ==
    [][/\ \A sid \in DOMAIN active_sessions :
             ~active_sessions[sid].is_active
             => /\ ~active_sessions'[sid].is_active
                /\ \A i \in DOMAIN ActiveIds(active_sessions') :
                       ActiveIds(active_sessions')[i] # sid
       /\ \A t \in TaskIds :
             (/\ Runs(t)
              /\ tasks[t].session_id \in DOMAIN active_sessions
              /\ ~PreCall(t).is_active
              /\ ValidIndex(tasks[t].choice_index,
                            PreCall(t).story_state.current_segment))
             => /\ tasks'[t].pc = "generating"
                /\ PostCall(t).story_state.story_history =
                      Append(PreCall(t).story_state.story_history,
                             PreCall(t).story_state.current_segment)
       /\ \A t \in TaskIds :
             (/\ Returns(t)
              /\ ~PreCall(t).is_active)
             => LET pre == PreCall(t).story_state
                    post == PostCall(t).story_state
                IN  /\ post.story_history =
                          Append(pre.story_history, pre.current_segment)
                    /\ post.current_segment = done'.next_segment
                    /\ post.last_updated = clock
                    /\ done'.ended_before
      ]_vars

\* a session ended before the call has advanced and is still inactive
AdvancedAfterEnd ==
    /\ done.outcome = "returned"
    /\ done.ended_before
    /\ done.session_id \in ended_ids
    /\ ~active_sessions[done.session_id].is_active
    /\ active_sessions[done.session_id].story_state.current_segment =
          done.next_segment
    /\ ActiveIds(active_sessions) # AllIds(active_sessions)

=============================================================================
